---- MODULE Spec2Model ----
(***************************************************************************)
(* Model of rhino_to_json.py: export of selected Rhino curve geometry to a *)
(* JSON point list (export_to_json and the extraction helpers it calls).   *)
(*                                                                         *)
(* Coordinates are integers counting grid cells of GridStep * 1e-5 length  *)
(* units; the tolerance 0.001 of the source is 100 in units of 1e-5, so    *)
(* "dist > tolerance" is  d2 * GridStep^2 > tolerance^2  on squared grid   *)
(* distances.  With GridStep = 15 no grid distance equals the tolerance.   *)
(* A curve length is an integer number of hundredths of a length unit.     *)
(* The script runs in Rhino's Python editor: IronPython 2.7, where          *)
(* i / num_points on two ints is floor division, or Python 3, where it is  *)
(* true division.  true_division says which; it is fixed for a run.        *)
(***************************************************************************)
EXTENDS Integers, Sequences, FiniteSets, TLC

VARIABLES true_division, pc, obj_ids, result, i, all_points, cleaned_points,
          appended, file_path, file, writes, messages, calls

vars == <<true_division, pc, obj_ids, result, i, all_points, cleaned_points,
          appended, file_path, file, writes, messages, calls>>

\* ------------------------------------------------------------ bounds
MaxObjects == 2
MaxVerts == 3
GridStep == 15

\* ------------------------------------------------------------ program constants
tolerance == 100
ArcSamples == 32
MinCurveSamples == 20
CurveSamplesPerUnit == 10

\* ------------------------------------------------------------ host objects
\* A host object as the rhinoscriptsyntax calls of the script see it.
BaseCurve ==
    [type |-> "curve", isCircle |-> FALSE, isPolyline |-> FALSE, isArc |-> FALSE,
     vertices |-> <<>>, closed |-> FALSE, hasDomain |-> TRUE, length |-> 100,
     origin |-> <<0, 0, 0>>, span |-> <<0, 0, 0>>, evaluable |-> TRUE,
     explode |-> "none", pieces |-> <<>>, toPolyline |-> "none", polyline |-> <<>>]

Polyline(verts, isClosed) ==
    [BaseCurve EXCEPT !.isPolyline = TRUE, !.vertices = verts, !.closed = isClosed]

Arc(o, s) == [BaseCurve EXCEPT !.isArc = TRUE, !.origin = o, !.span = s]

Curve(o, s, len) == [BaseCurve EXCEPT !.origin = o, !.span = s, !.length = len]

Circle(o, s, len, ex, pcs, tp, pl) ==
    [BaseCurve EXCEPT !.isCircle = TRUE, !.closed = TRUE, !.origin = o, !.span = s,
                      !.length = len, !.explode = ex, !.pieces = pcs,
                      !.toPolyline = tp, !.polyline = pl]

\* ------------------------------------------------------------ return values
\* What a helper hands back: None or a point list, with the host calls it made
\* (calls) and the message boxes it showed (msgs).
Ret(isNone, pts, cs, ms) == [none |-> isNone, points |-> pts, calls |-> cs, msgs |-> ms]
Truthy(r) == ~r.none /\ r.points # <<>>

\* i / num_points as a fraction <<numerator, denominator>>
Quotient(k, n) == IF true_division THEN <<k, n>> ELSE <<k \div n, 1>>

\* One host call on object c.
Call(name, c, n) ==
    [op |-> name, num_points |-> n, isArc |-> c.isArc, isCircle |-> c.isCircle,
     params |-> <<>>]

\* The rs.EvaluateCurve calls of one sampling loop on c, as one entry: params
\* are the fractions of the domain evaluated, in order.
Sampling(c, n) ==
    [op |-> "EvaluateCurve", num_points |-> n, isArc |-> c.isArc,
     isCircle |-> c.isCircle, params |-> [k \in 1..(n + 1) |-> Quotient(k - 1, n)]]

Message(ttl, txt, n) == [title |-> ttl, text |-> txt, arg |-> n]

\* ------------------------------------------------------------ host calls
Min(a, b) == IF a < b THEN a ELSE b
Max(a, b) == IF a > b THEN a ELSE b

\* rs.EvaluateCurve at t = domain[0] + (domain[1] - domain[0]) * q[1] / q[2]:
\* an open curve runs straight from origin to origin + span, a closed one
\* runs out and back; <<>> stands for a failed evaluation.
EvaluateCurve(c, q) ==
    IF ~c.evaluable THEN <<>>
    ELSE LET m == IF c.closed THEN Min(q[1], q[2] - q[1]) ELSE q[1]
         IN  [j \in 1..3 |-> c.origin[j] + (c.span[j] * m) \div q[2]]

\* ------------------------------------------------------------ extraction helpers
\* mutant of ToPoint: the evaluated point is appended as it is
ToPointRaw(p, is_profile) == p

ToPoint(p, is_profile) ==
    IF is_profile THEN <<p[1], p[2]>>
    ELSE <<p[1], p[2], IF Len(p) > 2 THEN p[3] ELSE 0>>

\* the sampling loop "for i in range(num_points + 1)": pass i evaluates the
\* curve at i / num_points and appends the point unless the evaluation failed
SampleLoop(c, is_profile, n) ==
    LET evaluated == [k \in 1..(n + 1) |-> EvaluateCurve(c, Quotient(k - 1, n))]
        Succeeded(point) == point # <<>>
        good == SelectSeq(evaluated, Succeeded)
    IN  [k \in 1..Len(good) |-> ToPoint(good[k], is_profile)]

CurveNumPoints(c) ==
    Max(MinCurveSamples, (c.length * CurveSamplesPerUnit) \div 100)

curve_to_points(c, is_profile) ==
    IF ~c.hasDomain THEN Ret(TRUE, <<>>, <<>>, <<>>)
    ELSE Ret(FALSE, SampleLoop(c, is_profile, CurveNumPoints(c)),
             <<Sampling(c, CurveNumPoints(c))>>, <<>>)

\* mutant of polyline_to_points: a closed polyline always gets its first point again
polyline_to_points_always(c, is_profile) ==
    IF c.vertices = <<>> THEN Ret(TRUE, <<>>, <<>>, <<>>)
    ELSE LET points == [k \in 1..Len(c.vertices) |-> ToPoint(c.vertices[k], is_profile)]
         IN  IF c.closed
             THEN Ret(FALSE, Append(points, points[1]), <<>>, <<>>)
             ELSE Ret(FALSE, points, <<>>, <<>>)

polyline_to_points(c, is_profile) ==
    IF c.vertices = <<>> THEN Ret(TRUE, <<>>, <<>>, <<>>)
    ELSE LET points == [k \in 1..Len(c.vertices) |-> ToPoint(c.vertices[k], is_profile)]
         IN  IF c.closed /\ points[1] # points[Len(points)]
             THEN Ret(FALSE, Append(points, points[1]), <<>>, <<>>)
             ELSE Ret(FALSE, points, <<>>, <<>>)

\* never called by geometry_to_points
circle_to_points(c, is_profile) ==
    IF ~c.hasDomain THEN Ret(TRUE, <<>>, <<>>, <<>>)
    ELSE Ret(FALSE, SampleLoop(c, is_profile, ArcSamples),
             <<Sampling(c, ArcSamples)>>, <<>>)

arc_to_points(c, is_profile) ==
    IF ~c.hasDomain THEN Ret(TRUE, <<>>, <<>>, <<>>)
    ELSE Ret(FALSE, SampleLoop(c, is_profile, ArcSamples),
             <<Sampling(c, ArcSamples)>>, <<>>)

\* The ids returned (points) and the conversions attempted (calls).
convert_circle_to_arcs(c) ==
    IF c.explode = "raise"
    THEN Ret(FALSE, <<c>>, <<Call("ExplodeCurves", c, 0)>>, <<>>)
    ELSE IF c.explode = "pieces" /\ Len(c.pieces) > 0
    THEN Ret(FALSE, c.pieces, <<Call("ExplodeCurves", c, 0)>>, <<>>)
    ELSE LET tried == <<Call("ExplodeCurves", c, 0), Call("ConvertCurveToPolyline", c, 0)>>
         IN  IF c.toPolyline = "ok" /\ c.polyline # <<>>
             THEN Ret(FALSE, c.polyline, tried, <<>>)
             ELSE Ret(FALSE, <<c>>, tried, <<>>)

\* the points of one converted piece (the type dispatch inside the circle branch)
PiecePoints(conv, is_profile) ==
    IF conv.isPolyline THEN polyline_to_points(conv, is_profile)
    ELSE IF conv.isArc THEN arc_to_points(conv, is_profile)
    ELSE curve_to_points(conv, is_profile)

RECURSIVE ConvertedPoints(_, _, _, _)
ConvertedPoints(converted, is_profile, k, acc) ==
    IF k > Len(converted) THEN acc
    ELSE LET points == PiecePoints(converted[k], is_profile)
         IN  ConvertedPoints(converted, is_profile, k + 1,
                 Ret(FALSE,
                     IF Truthy(points) THEN acc.points \o points.points ELSE acc.points,
                     acc.calls \o points.calls, <<>>))

geometry_to_points(obj, is_profile) ==
    IF obj.type = "curve"
    THEN IF obj.isCircle
         THEN LET converted == convert_circle_to_arcs(obj)
              IN  IF Len(converted.points) > 0
                  THEN LET all == ConvertedPoints(converted.points, is_profile, 1,
                                                  Ret(FALSE, <<>>, converted.calls, <<>>))
                       IN  IF all.points # <<>> THEN all
                           ELSE Ret(TRUE, <<>>, all.calls, <<>>)
                  ELSE curve_to_points(obj, is_profile)
         ELSE IF obj.isPolyline THEN polyline_to_points(obj, is_profile)
         ELSE IF obj.isArc THEN arc_to_points(obj, is_profile)
         ELSE curve_to_points(obj, is_profile)
    ELSE Ret(TRUE, <<>>, <<>>,
             <<Message("Error", "Selected object is not a curve, polyline, arc, or circle.", 0)>>)

\* ------------------------------------------------------------ post-processing
Sq(x) == x * x

\* squared 2D distance (profile branch of the dedup loop, and the closure test)
Dist2D(curr, prev) == Sq(curr[1] - prev[1]) + Sq(curr[2] - prev[2])

\* squared 3D distance (path branch of the dedup loop)
Dist3D(curr, prev) ==
    Sq(curr[1] - prev[1]) + Sq(curr[2] - prev[2])
    + Sq((IF Len(curr) > 2 THEN curr[3] ELSE 0) - (IF Len(prev) > 2 THEN prev[3] ELSE 0))

\* dist > tolerance, on the squared grid distance d2
Exceeds(d2) == d2 * GridStep * GridStep > tolerance * tolerance

Dist(curr, prev, is_profile) ==
    IF is_profile THEN Dist2D(curr, prev) ELSE Dist3D(curr, prev)

\* mutant of DedupStep: a near point replaces the last kept point
DedupStepReplace(cleaned, curr, is_profile) ==
    LET prev == cleaned[Len(cleaned)]
    IN  IF Exceeds(Dist(curr, prev, is_profile)) THEN Append(cleaned, curr)
        ELSE [cleaned EXCEPT ![Len(cleaned)] = curr]

\* one pass of the dedup loop: curr is kept when it is far from the last kept point
DedupStep(cleaned, curr, is_profile) ==
    LET prev == cleaned[Len(cleaned)]
    IN  IF Exceeds(Dist(curr, prev, is_profile)) THEN Append(cleaned, curr) ELSE cleaned

\* mutant of DedupLoop: each point is compared with the previous input point
DedupLoopPrevInput(points, cleaned, lo, hi, is_profile) ==
    LET keep == {k \in lo..hi : Exceeds(Dist(points[k], points[k - 1], is_profile))}
        Nth(j) == CHOOSE k \in keep : Cardinality({m \in keep : m <= k}) = j
    IN  cleaned \o [j \in 1..Cardinality(keep) |-> points[Nth(j)]]

\* the passes lo..hi of the dedup loop in order; the range is split in halves
\* and the first half is evaluated before the second starts, which keeps the
\* evaluation shallow (cleaned is never empty)
RECURSIVE DedupLoop(_, _, _, _, _)
DedupLoop(points, cleaned, lo, hi, is_profile) ==
    IF lo > hi THEN cleaned
    ELSE IF lo = hi THEN DedupStep(cleaned, points[lo], is_profile)
    ELSE LET mid == (lo + hi) \div 2
             left == DedupLoop(points, cleaned, lo, mid, is_profile)
         IN  IF Len(left) > 0
             THEN DedupLoop(points, left, mid + 1, hi, is_profile)
             ELSE left

\* the deduplication pass, on a non-empty list
Dedup(points, is_profile) ==
    DedupLoop(points, <<points[1]>>, 2, Len(points), is_profile)

\* mutant of NeedsClosing: closure only from four points on
NeedsClosingLong(cleaned, is_profile) ==
    /\ is_profile
    /\ Len(cleaned) > 3
    /\ Exceeds(Dist2D(cleaned[Len(cleaned)], cleaned[1]))

\* mutant of NeedsClosing: the closing gap is not measured
NeedsClosingAlways(cleaned, is_profile) ==
    /\ is_profile
    /\ Len(cleaned) > 2

\* the closure test of a profile: whether the first point is appended again
NeedsClosing(cleaned, is_profile) ==
    /\ is_profile
    /\ Len(cleaned) > 2
    /\ Exceeds(Dist2D(cleaned[Len(cleaned)], cleaned[1]))

EnsureClosed(cleaned, is_profile) ==
    IF NeedsClosing(cleaned, is_profile) THEN Append(cleaned, cleaned[1]) ELSE cleaned

\* ------------------------------------------------------------ inputs
BoundedSeq(S, n) == UNION {[1..k -> S] : k \in 0..n}

\* vertices a polyline of the document may store (the second has no z)
GridVertices == {<<0, 0, 0>>, <<5, 0>>, <<10, 0, 0>>, <<0, 0, 10>>, <<5, 5, 0>>}

\* what rs.GetString may return: an offered option, any other typed string, or
\* nothing ("") when the prompt is dismissed
Modes == {"PROFILE", "PATH"}
Answers == Modes \cup {"OTHER", ""}

Outcomes == {"raise", "none", "ok"}

ArcA == Arc(<<0, 0, 0>>, <<160, 0, 160>>)
LineB == Curve(<<160, 0, 160>>, <<-160, 0, -160>>, 100)
Square == Polyline(<<<<0, 0, 0>>, <<10, 0, 0>>, <<10, 10, 0>>, <<0, 10, 0>>>>, TRUE)

\* circles, by what ExplodeCurves and ConvertCurveToPolyline do on them (the
\* second is only called when the first gave nothing)
Circles ==
    {Circle(<<0, 0, 0>>, <<160, 160, 0>>, 405,
            IF o[1] = "ok" THEN "pieces" ELSE o[1],
            IF o[1] = "ok" THEN <<ArcA, LineB>> ELSE <<>>,
            o[2],
            IF o[2] = "ok" THEN <<Square>> ELSE <<>>) :
        o \in {q \in Outcomes \X Outcomes : q[1] = "ok" => q[2] = "ok"}}

Catalog ==
    Circles \cup
    {ArcA,
     [ArcA EXCEPT !.hasDomain = FALSE],
     Curve(<<0, 0, 0>>, <<160, 0, 0>>, 100),
     Curve(<<0, 0, 0>>, <<160, 0, 0>>, 405),
     [Curve(<<0, 0, 0>>, <<160, 0, 0>>, 100) EXCEPT !.evaluable = FALSE],
     Square,
     [BaseCurve EXCEPT !.type = "other"]}

\* what rs.GetObjects may return: nothing, up to MaxObjects objects of the
\* catalog, or one polyline of up to MaxVerts vertices
Selections ==
    BoundedSeq(Catalog, MaxObjects) \cup
    {<<Polyline(v, cl)>> : v \in BoundedSeq(GridVertices, MaxVerts), cl \in BOOLEAN}

\* ------------------------------------------------------------ export_to_json
is_profile == result = "PROFILE"

NoFile == [state |-> "none", points |-> <<>>]

Init ==
    /\ true_division \in BOOLEAN
    /\ pc = "select"
    /\ obj_ids = <<>>
    /\ result = ""
    /\ i = 0
    /\ all_points = <<>>
    /\ cleaned_points = <<>>
    /\ appended = FALSE
    /\ file_path = ""
    /\ file = NoFile
    /\ writes = 0
    /\ messages = <<>>
    /\ calls = <<>>

GetObjects ==
    /\ pc = "select"
    /\ \E sel \in Selections :
          /\ obj_ids' = sel
          /\ IF sel = <<>>
             THEN /\ messages' = Append(messages, Message("Error", "No objects selected.", 0))
                  /\ pc' = "done"
             ELSE /\ messages' = messages
                  /\ pc' = "mode"
    /\ UNCHANGED <<true_division, result, i, all_points, cleaned_points, appended, file_path, file,
                   writes, calls>>

GetString ==
    /\ pc = "mode"
    /\ \E r \in Answers :
          /\ result' = r
          /\ pc' = IF r = "" THEN "done" ELSE "extract"
    /\ UNCHANGED <<true_division, obj_ids, i, all_points, cleaned_points, appended, file_path, file,
                   writes, messages, calls>>

\* mutant of ExtractObject: a failed extraction ends the run
ExtractObjectAbort ==
    /\ pc = "extract"
    /\ i < Len(obj_ids)
    /\ LET points == geometry_to_points(obj_ids[i + 1], is_profile)
       IN  /\ i' = i + 1
           /\ calls' = calls \o [k \in 1..Len(points.calls) |->
                                    [obj |-> i + 1, call |-> points.calls[k]]]
           /\ IF Truthy(points)
              THEN /\ all_points' = all_points \o points.points
                   /\ messages' = messages \o points.msgs
                   /\ pc' = pc
              ELSE /\ all_points' = all_points
                   /\ messages' = (messages \o points.msgs) \o
                         <<Message("Warning", "Failed to extract points from object", i + 1)>>
                   /\ pc' = "done"
    /\ UNCHANGED <<true_division, obj_ids, result, cleaned_points, appended, file_path, file, writes>>

\* one pass of the loop over obj_ids
ExtractObject ==
    /\ pc = "extract"
    /\ i < Len(obj_ids)
    /\ LET points == geometry_to_points(obj_ids[i + 1], is_profile)
       IN  /\ i' = i + 1
           /\ calls' = calls \o [k \in 1..Len(points.calls) |->
                                    [obj |-> i + 1, call |-> points.calls[k]]]
           /\ IF Truthy(points)
              THEN /\ all_points' = all_points \o points.points
                   /\ messages' = messages \o points.msgs
              ELSE /\ all_points' = all_points
                   /\ messages' = (messages \o points.msgs) \o
                         <<Message("Warning", "Failed to extract points from object", i + 1)>>
    /\ UNCHANGED <<true_division, pc, obj_ids, result, cleaned_points, appended, file_path, file, writes>>

NoPoints ==
    /\ pc = "extract"
    /\ i = Len(obj_ids)
    /\ all_points = <<>>
    /\ messages' = Append(messages,
                          Message("Error", "No points extracted from selected geometry.", 0))
    /\ pc' = "done"
    /\ UNCHANGED <<true_division, obj_ids, result, i, all_points, cleaned_points, appended, file_path,
                   file, writes, calls>>

\* deduplication, then closure of a profile
PostProcess ==
    /\ pc = "extract"
    /\ i = Len(obj_ids)
    /\ all_points # <<>>
    /\ LET cleaned == Dedup(all_points, is_profile)
       IN  /\ appended' = NeedsClosing(cleaned, is_profile)
           /\ cleaned_points' = EnsureClosed(cleaned, is_profile)
    /\ pc' = "save"
    /\ UNCHANGED <<true_division, obj_ids, result, i, all_points, file_path, file, writes, messages, calls>>

\* mutant of SaveFileName: a dismissed dialog is not noticed
SaveFileNameUnchecked ==
    /\ pc = "save"
    /\ \E path \in {"", "out.json"} :
          /\ file_path' = path
          /\ pc' = "write"
    /\ UNCHANGED <<true_division, obj_ids, result, i, all_points, cleaned_points, appended, file,
                   writes, messages, calls>>

SaveFileName ==
    /\ pc = "save"
    /\ \E path \in {"", "out.json"} :
          /\ file_path' = path
          /\ pc' = IF path = "" THEN "done" ELSE "write"
    /\ UNCHANGED <<true_division, obj_ids, result, i, all_points, cleaned_points, appended, file,
                   writes, messages, calls>>

\* the try block of the write: open or json.dump may raise ("none": before the
\* file was opened, "partial": after); with the file complete, the success box
\* or one of the prints after it may raise too ("box raises", "print raises");
\* whatever raises, the except shows the error box
WriteFile ==
    /\ pc = "write"
    /\ writes' = writes + 1
    /\ LET success == Message("Export Complete", "Successfully exported points",
                              Len(cleaned_points))
           failure == Message("Error", "Error saving file", 0)
       IN  \E outcome \in {"complete", "none", "partial", "box raises", "print raises"} :
              /\ file' = IF outcome \in {"none", "partial"}
                         THEN [state |-> outcome, points |-> <<>>]
                         ELSE [state |-> "complete", points |-> cleaned_points]
              /\ messages' = IF outcome = "complete" THEN Append(messages, success)
                             ELSE IF outcome = "print raises"
                             THEN messages \o <<success, failure>>
                             ELSE Append(messages, failure)
    /\ pc' = "done"
    /\ UNCHANGED <<true_division, obj_ids, result, i, all_points, cleaned_points, appended,
                   file_path, calls>>

Next ==
    \/ GetObjects
    \/ GetString
    \/ ExtractObject
    \/ NoPoints
    \/ PostProcess
    \/ SaveFileName
    \/ WriteFile

Spec == Init /\ [][Next]_vars

\* ------------------------------------------------------------ properties
Written == file.state = "complete"

\* the written list without the closing point a profile may have got
WrittenBody ==
    IF appended THEN SubSeq(file.points, 1, Len(file.points) - 1) ELSE file.points

Far(a, b) == Exceeds(Dist(a, b, is_profile))

\* C1: a written profile of at least 3 points ends within the tolerance (2D) of
\* where it starts.
C1_ProfileRingClosed ==
    (Written /\ is_profile /\ Len(file.points) >= 3)
        => ~Exceeds(Dist2D(file.points[Len(file.points)], file.points[1]))

\* a written profile that got its first point appended again
C1_Witness ==
    /\ Written
    /\ is_profile
    /\ appended
    /\ Len(file.points) >= 4

\* C2: no two consecutive points of the written list are within the tolerance of
\* each other (2D in profile mode, 3D in path mode), the closing point included.
C2_NoNearNeighbours ==
    Written => \A k \in 1..(Len(file.points) - 1) :
                   Far(file.points[k + 1], file.points[k])

\* a written profile where deduplication dropped points and closure appended one
C2_Witness ==
    /\ Written
    /\ appended
    /\ Len(WrittenBody) < Len(all_points)

\* C3: the deduplication pass applied to its own output returns it unchanged.
C3_DedupIdempotent ==
    (pc \in {"save", "write"})
        => LET out == IF appended
                      THEN SubSeq(cleaned_points, 1, Len(cleaned_points) - 1)
                      ELSE cleaned_points
           IN  Dedup(out, is_profile) = out

\* a pass that dropped a point and kept at least three
C3_Witness ==
    /\ pc = "save"
    /\ ~appended
    /\ Len(cleaned_points) >= 3
    /\ Len(cleaned_points) < Len(all_points)

\* the projection of a stored vertex to the arity of the mode
Projected(v) ==
    IF is_profile THEN <<v[1], v[2]>>
    ELSE <<v[1], v[2], IF Len(v) = 3 THEN v[3] ELSE 0>>

FirstIsPolyline ==
    /\ pc = "extract"
    /\ i = 1
    /\ obj_ids[1].type = "curve"
    /\ ~obj_ids[1].isCircle
    /\ obj_ids[1].isPolyline
    /\ obj_ids[1].vertices # <<>>

\* C4: a polyline gives its stored vertices in order, projected, plus a copy of
\* the first one exactly when the host reports it closed and the projected first
\* and last vertices differ; equal stored ends and open polylines get no point.
C4_PolylineVertices ==
    FirstIsPolyline =>
        LET v == obj_ids[1].vertices
            n == Len(v)
            extended == Len(all_points) = n + 1
        IN  /\ Len(all_points) \in {n, n + 1}
            /\ \A k \in 1..n : all_points[k] = Projected(v[k])
            /\ extended <=> (obj_ids[1].closed /\ Projected(v[1]) # Projected(v[n]))
            /\ extended => all_points[n + 1] = all_points[1]
            /\ v[1] = v[n] => ~extended
            /\ ~obj_ids[1].closed => ~extended

\* a closed polyline in path mode whose stored ends differ, and so is extended
C4_Witness ==
    /\ FirstIsPolyline
    /\ ~is_profile
    /\ obj_ids[1].closed
    /\ Len(obj_ids[1].vertices) >= 3
    /\ Len(all_points) = Len(obj_ids[1].vertices) + 1

\* C5: every arc and every circle that is sampled by parameter evaluation is
\* sampled with 32 intervals: 33 evenly spaced parameter values, both ends of
\* the domain included.
C5_ArcsAndCirclesUse32 ==
    \A j \in 1..Len(calls) :
        (calls[j].call.op = "EvaluateCurve" /\ (calls[j].call.isArc \/ calls[j].call.isCircle))
            => /\ calls[j].call.num_points = ArcSamples
               /\ Len(calls[j].call.params) = ArcSamples + 1
               /\ \A k \in 1..Len(calls[j].call.params) :
                      calls[j].call.params[k][1] * ArcSamples
                          = (k - 1) * calls[j].call.params[k][2]

\* the points object k contributes: those extracted, or none when none were
Extracted(k) ==
    LET r == geometry_to_points(obj_ids[k], is_profile)
    IN  IF Truthy(r) THEN r.points ELSE <<>>

RECURSIVE ConcatExtracted(_)
ConcatExtracted(k) == IF k = 0 THEN <<>> ELSE ConcatExtracted(k - 1) \o Extracted(k)

FailedObjects == {k \in 1..i : Extracted(k) = <<>>}

Warnings ==
    LET IsWarning(m) == m.title = "Warning"
    IN  SelectSeq(messages, IsWarning)

\* C6: a failed extraction warns about that object, adds no points, and the loop
\* goes on: after each pass the collected points are those of the objects
\* extracted so far, in selection order, with one warning per failed object, and
\* the loop is left only when every object has been processed.
C6_FailureSkipsObject ==
    /\ pc = "extract"
          => /\ all_points = ConcatExtracted(i)
             /\ Len(Warnings) = Cardinality(FailedObjects)
             /\ \A j \in 1..Len(Warnings) : Warnings[j].arg \in FailedObjects
             /\ \A j \in 1..(Len(Warnings) - 1) : Warnings[j].arg < Warnings[j + 1].arg
    /\ (result # "" /\ pc # "extract") => i = Len(obj_ids)
    /\ pc \in {"save", "write"} => all_points # <<>>

\* the first object failed, a later one gave points, and the run went on
C6_Witness ==
    /\ pc = "extract"
    /\ i = Len(obj_ids)
    /\ 1 \in FailedObjects
    /\ Len(obj_ids) \notin FailedObjects
    /\ Len(obj_ids) >= 2
    /\ all_points # <<>>

\* C7: the file is written at most once, and only after a non-empty selection,
\* a mode, at least one point and a save path; the other runs end without a
\* file, with a message for an empty selection and for no points, and without
\* one for a dismissed mode prompt.
C7_WriteOnlyAfterAllPrompts ==
    /\ writes <= 1
    /\ (writes = 1 \/ file # NoFile)
          => /\ obj_ids # <<>> /\ result # "" /\ all_points # <<>>
             /\ cleaned_points # <<>> /\ file_path # "" /\ pc = "done" /\ writes = 1
    /\ result # "" => obj_ids # <<>>
    /\ cleaned_points # <<>> => (result # "" /\ i = Len(obj_ids) /\ all_points # <<>>)
    /\ file_path # "" => cleaned_points # <<>>
    /\ (pc = "done" /\ obj_ids = <<>>)
          => /\ writes = 0
             /\ messages = <<Message("Error", "No objects selected.", 0)>>
    /\ (pc = "done" /\ obj_ids # <<>> /\ result = "")
          => /\ writes = 0
             /\ messages = <<>>
    /\ (pc = "done" /\ result # "" /\ all_points = <<>>)
          => /\ writes = 0
             /\ messages # <<>>
             /\ messages[Len(messages)] =
                   Message("Error", "No points extracted from selected geometry.", 0)
    /\ (pc = "done" /\ cleaned_points # <<>> /\ file_path = "") => writes = 0

\* a run that wrote its file
C7_Witness ==
    /\ pc = "done"
    /\ writes = 1
    /\ Written

\* C8: every written point has 2 coordinates in profile mode and 3 in path mode.
C8_PointArity ==
    Written => \A k \in 1..Len(file.points) :
                   Len(file.points[k]) = IF is_profile THEN 2 ELSE 3

\* a written profile from a polyline and a sampled arc, closed by an appended point
C8_Witness ==
    /\ Written
    /\ is_profile
    /\ appended
    /\ Len(obj_ids) = 2
    /\ obj_ids[1].isPolyline
    /\ obj_ids[2].isArc

ExplodeWorks(c) == c.explode = "pieces" /\ c.pieces # <<>>
ToPolylineWorks(c) == c.toPolyline = "ok" /\ c.polyline # <<>>

\* C9: for a circle the exploded pieces are used when the explode gives any;
\* whenever the explode fails (nothing, or it raises) the polyline approximation
\* is attempted and used if it works; only then the circle itself is returned.
C9_CircleConversionOrder ==
    \A k \in 1..i :
        (obj_ids[k].type = "curve" /\ obj_ids[k].isCircle) =>
            LET c == obj_ids[k]
                returned == convert_circle_to_arcs(c).points
                attempted == \E j \in 1..Len(calls) :
                                 /\ calls[j].obj = k
                                 /\ calls[j].call.op = "ConvertCurveToPolyline"
            IN  /\ returned # <<>>
                /\ ExplodeWorks(c) => (returned = c.pieces /\ ~attempted)
                /\ ~ExplodeWorks(c) => attempted
                /\ (~ExplodeWorks(c) /\ ToPolylineWorks(c)) => returned = c.polyline
                /\ (~ExplodeWorks(c) /\ ~ToPolylineWorks(c)) => returned = <<c>>

\* the first index after from whose point is farther than the tolerance from the
\* point at from; 0 when there is none
NextFar(points, from) ==
    IF \E k \in (from + 1)..Len(points) : Far(points[k], points[from])
    THEN CHOOSE k \in (from + 1)..Len(points) :
             /\ Far(points[k], points[from])
             /\ \A m \in (from + 1)..(k - 1) : ~Far(points[m], points[from])
    ELSE 0

\* the index in points of body[hi], when body[lo - 1] is the point at index at
\* and each of body[lo..hi] is the next far point after the one before; else 0
RECURSIVE KeptIndex(_, _, _, _, _)
KeptIndex(points, body, at, lo, hi) ==
    IF at = 0 THEN 0
    ELSE IF lo > hi THEN at
    ELSE IF lo = hi
    THEN LET k == NextFar(points, at)
         IN  IF k # 0 /\ points[k] = body[lo] THEN k ELSE 0
    ELSE LET mid == (lo + hi) \div 2
             left == KeptIndex(points, body, at, lo, mid)
         IN  IF left = 0 THEN 0 ELSE KeptIndex(points, body, left, mid + 1, hi)

\* the list about to be written, without the closing point a profile may have got
CleanedBody ==
    IF appended THEN SubSeq(cleaned_points, 1, Len(cleaned_points) - 1)
    ELSE cleaned_points

\* C10: the written list is the list the write step was reached with, and that
\* list without its closing point is a subsequence, in order, of the extracted
\* points; it starts with the first extracted point, and each next element is
\* the first later point farther than the tolerance from the last kept one,
\* with no such point left after the last element.
C10_KeptFromLastKept ==
    /\ Written => file.points = cleaned_points
    /\ pc = "write" =>
          /\ CleanedBody # <<>>
          /\ CleanedBody[1] = all_points[1]
          /\ LET last == KeptIndex(all_points, CleanedBody, 1, 2, Len(CleanedBody))
             IN  last # 0 /\ NextFar(all_points, last) = 0

\* a written list where a dropped point lies between two kept ones and the last
\* kept point is within the tolerance of the dropped one
C10_Witness ==
    /\ Written
    /\ Len(all_points) >= 3
    /\ Len(WrittenBody) >= 2
    /\ \E k \in 2..(Len(all_points) - 1) :
          /\ ~Far(all_points[k], all_points[k - 1])
          /\ ~Far(all_points[k + 1], all_points[k])
          /\ Far(all_points[k + 1], all_points[k - 1])
          /\ WrittenBody[1] = all_points[k - 1]
          /\ WrittenBody[2] = all_points[k + 1]

====
